---------------------------- MODULE Spec2Model ----------------------------
(***************************************************************************)
(* Lab Sheet Generator Cloud Service: the recurrence calculation, the      *)
(* periodic scan, the in-memory action-token store and the email-button    *)
(* endpoints of src/app.py, as a state machine.                            *)
(*                                                                         *)
(* Time is the naive local clock (datetime.now()) in whole seconds since   *)
(* Monday 2024-06-03 00:00:00.                                             *)
(*                                                                         *)
(* Spec      one schedule, the scan and the email-button requests, each in *)
(*           one piece, over the firing window and the token expiry        *)
(* SpecAdmin the same with the schedule update and delete requests         *)
(* SpecTwo   two schedules, one with auto_increment off                    *)
(* SpecReq   two generate requests interleaved step by step                *)
(* SpecJob   the runs of the email_checker job step by step                *)
(* SpecCalc  calculate_next_generation_time on its own                     *)
(* SpecSkip  the runs of the job with the skip requests                    *)
(* SpecPeriodic  the job on its 15 minute interval                         *)
(* SpecStatus  the runs of the job with the updates of status              *)
(* SpecBad   the runs of the job over schedules with a malformed lab_time  *)
(* SpecGone  the email-button requests with the schedule or module removed *)
(* SpecWeek  the runs of the job and the skip requests over two weeks      *)
(* SpecCool  the runs of the job around two triggers one hour apart        *)
(* SpecAny   the email-button requests with tokens in the store or not     *)
(* SpecEdit  the PUT requests on a schedule with its time stamps set       *)
(* SpecPaused  the email-button requests on a paused or disabled schedule  *)
(* SpecStore  the token store up to the expiry of the first tokens         *)
(***************************************************************************)
EXTENDS Integers, Sequences, FiniteSets, TLC

VARIABLES
    now,        \* the wall clock, datetime.now()
    schedules,  \* the schedules table: id -> row
    tokens,     \* app.tokens: token -> {user_id, schedule_id, action, created_at, expires_at}
    nextTok,    \* the next value secrets.token_urlsafe returns (never repeats)
    history,    \* the generation_history table, in insertion order
    outbox,     \* the notification emails handed to the SMTP server, with the outcome of each
    upd,        \* number of schedule update/delete requests served
    reqs,       \* the generate requests being served by the threads of the server
    pass,       \* the runs of the email_checker job on the threads of the scheduler
    email_enabled,     \* email_manager.enabled
    onedrive_enabled,  \* onedrive_manager.enabled
    calc        \* a call of calculate_next_generation_time on its own: arguments and result

vars == <<now, schedules, tokens, nextTok, history, outbox, upd, reqs, pass,
          email_enabled, onedrive_enabled, calc>>

\* What the requests and the scan leave alone when each runs in one piece
aux == <<reqs, pass, calc>>

-----------------------------------------------------------------------------
(* Program constants *)

SecondsPerMinute == 60
SecondsPerHour == 3600
SecondsPerDay == 86400
TokenTTL == 86400
FiringWindow == 300
CoolDown == 3600
NoTime == -1

(* Bounds of the model *)

MaxTokens == 4
MaxUpdates == 1

ScheduleIds == {1, 2}

-----------------------------------------------------------------------------
(* datetime arithmetic *)

At(day, h, m, s) == day * SecondsPerDay + h * SecondsPerHour + m * SecondsPerMinute + s

DayOf(t) == t \div SecondsPerDay

\* datetime.weekday(): Monday = 0 .. Sunday = 6
Weekday(t) == DayOf(t) % 7

\* datetime.replace(hour=h, minute=m, second=0, microsecond=0)
Replace(t, h, m) == At(DayOf(t), h, m, 0)

\* datetime.utcnow(): the server clock is set to UTC
UtcNow(t) == t

\* datetime.date().isoformat(): the calendar date as <<year, month, day>>
IsoDate(t) ==
    LET n == DayOf(t)
    IN  IF n < 28 THEN <<2024, 6, 3 + n>> ELSE <<2024, 7, n - 27>>

-----------------------------------------------------------------------------
(* "HH:MM" strings are sequences of characters *)

Digits == <<"0", "1", "2", "3", "4", "5", "6", "7", "8", "9">>

IsDigit(c) == \E i \in 1..10 : Digits[i] = c

DigitVal(c) == (CHOOSE i \in 1..10 : Digits[i] = c) - 1

\* str.split(':')
RECURSIVE Split(_)
Split(str) ==
    IF \A i \in 1..Len(str) : str[i] # ":"
    THEN <<str>>
    ELSE LET k == CHOOSE i \in 1..Len(str) :
                      str[i] = ":" /\ \A j \in 1..(i - 1) : str[j] # ":"
         IN  <<SubSeq(str, 1, k - 1)>> \o Split(SubSeq(str, k + 1, Len(str)))

\* int(s) succeeds on a non-empty string of decimal digits
IsInt(str) == Len(str) > 0 /\ \A i \in 1..Len(str) : IsDigit(str[i])

RECURSIVE ParseInt(_)
ParseInt(str) ==
    IF Len(str) = 0 THEN 0
    ELSE 10 * ParseInt(SubSeq(str, 1, Len(str) - 1)) + DigitVal(str[Len(str)])

-----------------------------------------------------------------------------
(* calculate_next_generation_time *)

Raised == [err |-> TRUE, t |-> 0]

\* lab_time.split(':'), int(parts[0]), int(parts[1]); replace(hour=, minute=)
\* accepts 0..23 and 0..59
ValidLabTime(lab_time) ==
    LET lab_time_parts == Split(lab_time)
    IN  /\ Len(lab_time_parts) >= 2
        /\ IsInt(lab_time_parts[1]) /\ IsInt(lab_time_parts[2])
        /\ ParseInt(lab_time_parts[1]) <= 23
        /\ ParseInt(lab_time_parts[2]) <= 59

LabHour(lab_time) == ParseInt(Split(lab_time)[1])

LabMinute(lab_time) == ParseInt(Split(lab_time)[2])

\* Mutant: the lab of today counts as started only after its first instant
DaysUntilLab_Strict(t, target_day, lab_hour, lab_minute) ==
    LET days_until_lab == (target_day - Weekday(t)) % 7
    IN  IF days_until_lab = 0 /\ t > Replace(t, lab_hour, lab_minute)
        THEN 7
        ELSE days_until_lab

\* Mutant: on the day of the lab the next lab is always a week away
DaysUntilLab_AlwaysRoll(t, target_day, lab_hour, lab_minute) ==
    LET days_until_lab == (target_day - Weekday(t)) % 7
    IN  IF days_until_lab = 0 THEN 7 ELSE days_until_lab

\* Mutant: the rollover skips a week
DaysUntilLab_TwoWeeks(t, target_day, lab_hour, lab_minute) ==
    LET days_until_lab == (target_day - Weekday(t)) % 7
    IN  IF days_until_lab = 0 /\ t >= Replace(t, lab_hour, lab_minute)
        THEN 14
        ELSE days_until_lab

\* Mutant: no rollover on the day of the lab
DaysUntilLab_Today(t, target_day, lab_hour, lab_minute) ==
    (target_day - Weekday(t)) % 7

\* days_until_lab: 0..6 days to the next target weekday, 7 when the lab of
\* today has started
DaysUntilLab(t, target_day, lab_hour, lab_minute) ==
    LET days_until_lab == (target_day - Weekday(t)) % 7
    IN  IF days_until_lab = 0 /\ t >= Replace(t, lab_hour, lab_minute)
        THEN 7
        ELSE days_until_lab

calculate_next_generation_time(sch, t) ==
    IF ~ValidLabTime(sch.lab_time)
    THEN Raised
    ELSE LET lab_hour == LabHour(sch.lab_time)
             lab_minute == LabMinute(sch.lab_time)
             days_until_lab == DaysUntilLab(t, sch.day_of_week, lab_hour, lab_minute)
             next_lab == Replace(t + days_until_lab * SecondsPerDay, lab_hour, lab_minute)
         IN  [err |-> FALSE,
              t |-> next_lab - sch.generate_before_minutes * SecondsPerMinute]

\* A call: the schedule fields read, the clock, and the value returned
Call(day_of_week, lab_time, generate_before_minutes, at) ==
    [day_of_week |-> day_of_week, lab_time |-> lab_time,
     generate_before_minutes |-> generate_before_minutes, at |-> at,
     returned |-> FALSE, result |-> Raised]

NoCall == Call(0, <<>>, 0, 0)

Calculate ==
    /\ ~calc.returned
    /\ calc' = [calc EXCEPT !.returned = TRUE,
                            !.result = calculate_next_generation_time(calc, calc.at)]
    /\ UNCHANGED <<now, schedules, tokens, nextTok, history, outbox, upd, reqs, pass,
                   email_enabled, onedrive_enabled>>

-----------------------------------------------------------------------------
(* The token store *)

\* generate_token: a fresh token bound to (user, schedule, action), valid 24 hours
TokenData(sid, action, t) ==
    [user_id |-> schedules[sid].user_id, schedule_id |-> sid, action |-> action,
     created_at |-> t, expires_at |-> t + TokenTTL]

\* Mutant: storing a token empties the store first
Put_Only(store, tok, data) == [k \in {tok} |-> data]

\* tokens[token] = {...}
Put(store, tok, data) ==
    [k \in DOMAIN store \cup {tok} |-> IF k = tok THEN data ELSE store[k]]

\* Mutant: the tokens issued together with tok go with it
Del_Firing(store, tok) ==
    [k \in {j \in DOMAIN store : store[j].created_at # store[tok].created_at
                                   \/ store[j].schedule_id # store[tok].schedule_id}
        |-> store[k]]

\* del tokens[token]
Del(store, tok) == [k \in DOMAIN store \ {tok} |-> store[k]]

-----------------------------------------------------------------------------
(* check_and_send_emails: one pass of the scan *)

\* Mutant: the window open at the trigger itself
InWindow_OpenAtZero(time_diff) == 0 < time_diff /\ time_diff <= FiringWindow

\* Mutant: the window on the other side of the trigger
InWindow_AfterTrigger(time_diff) == -FiringWindow <= time_diff /\ time_diff <= 0

\* 0 <= time_diff <= 300
InWindow(time_diff) == 0 <= time_diff /\ time_diff <= FiringWindow

\* Mutant: the cool-down as long as the firing window
RecentlySent_Short(sch, t) ==
    sch.last_email_sent # NoTime /\ t - sch.last_email_sent < FiringWindow

\* Mutant: no cool-down
RecentlySent_Never(sch, t) == FALSE

\* Mutant: the cool-down still on when exactly one hour has passed
RecentlySent_Inclusive(sch, t) ==
    sch.last_email_sent # NoTime /\ t - sch.last_email_sent <= CoolDown

\* schedule.last_email_sent and (now - last_sent).total_seconds() < 3600
RecentlySent(sch, t) ==
    sch.last_email_sent # NoTime /\ t - sch.last_email_sent < CoolDown

\* Mutant: no date is ever found in the list
Contains_Never(list, x) == FALSE

\* Mutant: any date on the list counts as today
Contains_Any(list, x) == Len(list) > 0

\* today in skip_dates
Contains(list, x) == \E i \in 1..Len(list) : list[i] = x

\* A notification handed to email_manager.send_generation_email, and what it returned
Mail(sid, at, gen_token, skip_token, success) ==
    [schedule_id |-> sid, at |-> at, generate_token |-> gen_token,
     skip_token |-> skip_token, success |-> success]

\* Mutant: last_email_sent is written whatever send_generation_email returned
ScanOne_MarkAttempt(st, sid, delivered) ==
    LET sch == st.db[sid]
        next_gen == calculate_next_generation_time(sch, now)
    IN  IF next_gen.err THEN st
        ELSE IF ~InWindow(next_gen.t - st.at) THEN st
        ELSE IF RecentlySent(sch, st.at) THEN st
        ELSE IF Contains(sch.skip_dates, IsoDate(st.at)) THEN st
        ELSE
        LET gen_token == st.nextTok
            skip_token == st.nextTok + 1
            issued == Put(Put(st.tokens, gen_token, TokenData(sid, "generate", now)),
                          skip_token, TokenData(sid, "skip", now))
            st1 == [st EXCEPT !.tokens = issued, !.nextTok = st.nextTok + 2]
        IN  IF ~email_enabled THEN st1
            ELSE IF ~sch.has_module THEN st1
            ELSE [st1 EXCEPT !.outbox = Append(st1.outbox,
                                   Mail(sid, st.at, gen_token, skip_token, delivered)),
                             !.db[sid].last_email_sent = st.at]

\* The body of the loop for schedule sid.  st carries the rows the pass has
\* loaded, the tables it writes and st.at, the clock reading the pass took
\* before the loop; calculate_next_generation_time and generate_token read
\* the clock again.  delivered is the outcome of send_generation_email.
ScanOne(st, sid, delivered) ==
    LET sch == st.db[sid]
        next_gen == calculate_next_generation_time(sch, now)
    IN  IF next_gen.err THEN st
        ELSE IF ~InWindow(next_gen.t - st.at) THEN st
        ELSE IF RecentlySent(sch, st.at) THEN st
        ELSE IF Contains(sch.skip_dates, IsoDate(st.at)) THEN st
        ELSE
        LET gen_token == st.nextTok
            skip_token == st.nextTok + 1
            issued == Put(Put(st.tokens, gen_token, TokenData(sid, "generate", now)),
                          skip_token, TokenData(sid, "skip", now))
            st1 == [st EXCEPT !.tokens = issued, !.nextTok = st.nextTok + 2]
        IN  IF ~email_enabled THEN st1
            ELSE IF ~sch.has_module THEN st1
            ELSE
            LET mail == Mail(sid, st.at, gen_token, skip_token, delivered)
                st2 == [st1 EXCEPT !.outbox = Append(st1.outbox, mail)]
            IN  IF delivered
                THEN [st2 EXCEPT !.db[sid].last_email_sent = st.at]
                ELSE st2

\* Mutant: the query without the filter on status
ActiveIds_All(db) == {sid \in ScheduleIds : db[sid].exists}

\* db.query(Schedule).filter_by(status='active').all()
ActiveIds(db) == {sid \in ScheduleIds : db[sid].exists /\ db[sid].status = "active"}

\* Mutant: the exception of one schedule ends the loop
RECURSIVE ScanLoop_Abort(_, _, _)
ScanLoop_Abort(st, todo, okSet) ==
    IF todo = {} THEN st
    ELSE LET sid == CHOOSE x \in todo : \A y \in todo : x <= y
         IN  IF calculate_next_generation_time(st.db[sid], now).err
             THEN st
             ELSE ScanLoop_Abort(ScanOne(st, sid, sid \in okSet), todo \ {sid}, okSet)

\* for schedule in schedules: try: ... except Exception: continue
RECURSIVE ScanLoop(_, _, _)
ScanLoop(st, todo, okSet) ==
    IF todo = {} THEN st
    ELSE LET sid == CHOOSE x \in todo : \A y \in todo : x <= y
         IN  ScanLoop(ScanOne(st, sid, sid \in okSet), todo \ {sid}, okSet)

ScanResult(okSet) ==
    ScanLoop([db |-> schedules, tokens |-> tokens, nextTok |-> nextTok,
              outbox |-> outbox, at |-> now],
             ActiveIds(schedules), okSet)

\* okSet: the schedules whose notification email the SMTP server accepts
check_and_send_emails(okSet) ==
    LET r == ScanResult(okSet)
    IN  /\ r.nextTok - 1 <= MaxTokens
        /\ schedules' = r.db
        /\ tokens' = r.tokens
        /\ nextTok' = r.nextTok
        /\ outbox' = r.outbox
        /\ UNCHANGED <<now, history, upd, email_enabled, onedrive_enabled, aux>>

-----------------------------------------------------------------------------
(* GET /api/generate/<token> *)

\* The page the request is answered with: "invalid" is ERROR_PAGE "Invalid or
\* expired link" (400), "expired" is "Link has expired" (400), "not_found" is
\* "User or schedule not found" (404), "error" is the page of the except
\* clause (500), "success" is SUCCESS_PAGE.  generated: document_generator
\* returned a path (it raised otherwise); uploaded, mailed: upload_file and
\* send_confirmation_email returned success (they return failure, never raise).
\* Mutant: the link expires at expires_at itself
GenerateAnswer_ExpiresEarly(tok, generated, uploaded, mailed) ==
    IF tok \notin DOMAIN tokens THEN "invalid"
    ELSE IF now >= tokens[tok].expires_at THEN "expired"
    ELSE IF ~schedules[tokens[tok].schedule_id].exists THEN "not_found"
    ELSE IF ~schedules[tokens[tok].schedule_id].has_module THEN "error"
    ELSE IF ~generated THEN "error"
    ELSE "success"

GenerateAnswer(tok, generated, uploaded, mailed) ==
    IF tok \notin DOMAIN tokens THEN "invalid"
    ELSE IF now > tokens[tok].expires_at THEN "expired"
    ELSE IF ~schedules[tokens[tok].schedule_id].exists THEN "not_found"
    ELSE IF ~schedules[tokens[tok].schedule_id].has_module THEN "error"
    ELSE IF ~generated THEN "error"
    ELSE "success"

\* onedrive_manager.upload_file is called and returns success
Uploaded(sch, uploaded) == sch.upload_to_onedrive /\ onedrive_enabled /\ uploaded

\* The history row and the schedule row written before db.commit()
HistoryRow(sch, uploaded) ==
    [user_id |-> sch.user_id, module_code |-> sch.module_id,
     practical_number |-> sch.current_practical_number, generated_via |-> "email",
     onedrive_link |-> IF Uploaded(sch, uploaded) THEN "link" ELSE "none",
     email_sent |-> sch.send_confirmation]

\* Mutant: a generation clears the cool-down
Generated_ResetCoolDown(sch) ==
    [sch EXCEPT !.current_practical_number = IF sch.auto_increment THEN @ + 1 ELSE @,
                !.last_generated_at = UtcNow(now),
                !.last_email_sent = NoTime]

\* Mutant: the counter advances whatever auto_increment says
Generated_Always(sch) ==
    [sch EXCEPT !.current_practical_number = @ + 1,
                !.last_generated_at = UtcNow(now)]

Generated(sch) ==
    [sch EXCEPT !.current_practical_number = IF sch.auto_increment THEN @ + 1 ELSE @,
                !.last_generated_at = UtcNow(now)]

\* Mutant: a failed upload leaves the counter where it was
generate_from_email_Rollback(tok, generated, uploaded, mailed) ==
    LET answer == GenerateAnswer(tok, generated, uploaded, mailed)
    IN  /\ UNCHANGED <<now, nextTok, outbox, upd, email_enabled, onedrive_enabled, aux>>
        /\ IF answer = "success"
           THEN LET sid == tokens[tok].schedule_id
                    sch == schedules[sid]
                IN  /\ history' = Append(history, HistoryRow(sch, uploaded))
                    /\ schedules' = [schedules EXCEPT ![sid] =
                          IF uploaded THEN Generated(sch)
                          ELSE [sch EXCEPT !.last_generated_at = UtcNow(now)]]
                    /\ tokens' = Del(tokens, tok)
           ELSE /\ tokens' = IF answer = "expired" THEN Del(tokens, tok) ELSE tokens
                /\ UNCHANGED <<schedules, history>>

generate_from_email(tok, generated, uploaded, mailed) ==
    LET answer == GenerateAnswer(tok, generated, uploaded, mailed)
    IN  /\ UNCHANGED <<now, nextTok, outbox, upd, email_enabled, onedrive_enabled, aux>>
        /\ CASE answer = "invalid" ->
                  UNCHANGED <<schedules, tokens, history>>
             [] answer = "expired" ->
                  /\ tokens' = Del(tokens, tok)
                  /\ UNCHANGED <<schedules, history>>
             [] answer \in {"not_found", "error"} ->
                  UNCHANGED <<schedules, tokens, history>>
             [] answer = "success" ->
                  LET sid == tokens[tok].schedule_id
                      sch == schedules[sid]
                  IN  /\ history' = Append(history, HistoryRow(sch, uploaded))
                      /\ schedules' = [schedules EXCEPT ![sid] = Generated(sch)]
                      /\ tokens' = Del(tokens, tok)

-----------------------------------------------------------------------------
(* GET /api/skip/<token> *)

\* Mutant: a token that is not in the store is reported as expired
SkipAnswer_AbsentExpired(tok) ==
    IF tok \notin DOMAIN tokens THEN "expired"
    ELSE IF now > tokens[tok].expires_at THEN "expired"
    ELSE IF ~schedules[tokens[tok].schedule_id].exists THEN "not_found"
    ELSE IF ~schedules[tokens[tok].schedule_id].has_module THEN "error"
    ELSE "skipped"

\* Mutant: the skip request refuses a schedule that is not active
SkipAnswer_ActiveOnly(tok) ==
    IF tok \notin DOMAIN tokens THEN "invalid"
    ELSE IF now > tokens[tok].expires_at THEN "expired"
    ELSE IF ~schedules[tokens[tok].schedule_id].exists THEN "not_found"
    ELSE IF schedules[tokens[tok].schedule_id].status # "active" THEN "not_found"
    ELSE IF ~schedules[tokens[tok].schedule_id].has_module THEN "error"
    ELSE "skipped"

\* Mutant: the skip request does not test the row it loaded
SkipAnswer_NoLookup(tok) ==
    IF tok \notin DOMAIN tokens THEN "invalid"
    ELSE IF now > tokens[tok].expires_at THEN "expired"
    ELSE "skipped"

\* "skipped" is SKIP_PAGE; the others as for generate
SkipAnswer(tok) ==
    IF tok \notin DOMAIN tokens THEN "invalid"
    ELSE IF now > tokens[tok].expires_at THEN "expired"
    ELSE IF ~schedules[tokens[tok].schedule_id].exists THEN "not_found"
    ELSE IF ~schedules[tokens[tok].schedule_id].has_module THEN "error"
    ELSE "skipped"

\* Mutant: today replaces the list
Skipped_Replace(sch) == [sch EXCEPT !.skip_dates = <<IsoDate(now)>>]

\* Mutant: today is appended whether or not it is on the list
Skipped_Always(sch) == [sch EXCEPT !.skip_dates = Append(@, IsoDate(now))]

Skipped(sch) ==
    LET today == IsoDate(now)
    IN  IF Contains(sch.skip_dates, today)
        THEN sch
        ELSE [sch EXCEPT !.skip_dates = Append(@, today)]

skip_from_email(tok) ==
    LET answer == SkipAnswer(tok)
    IN  /\ UNCHANGED <<now, nextTok, upd, history, outbox, email_enabled, onedrive_enabled, aux>>
        /\ CASE answer = "invalid" ->
                  UNCHANGED <<schedules, tokens>>
             [] answer = "expired" ->
                  /\ tokens' = Del(tokens, tok)
                  /\ UNCHANGED schedules
             [] answer = "not_found" ->
                  UNCHANGED <<schedules, tokens>>
             [] answer \in {"skipped", "error"} ->
                  LET sid == tokens[tok].schedule_id
                  IN  /\ schedules' = [schedules EXCEPT ![sid] = Skipped(@)]
                      /\ tokens' = Del(tokens, tok)

-----------------------------------------------------------------------------
(* PUT and DELETE /api/schedules/<id> *)

UpdateKeys == {"day_of_week", "lab_time", "generate_before_minutes",
               "current_practical_number", "auto_increment", "status"}

\* The values the requests of the model carry for each key
UpdateValues(key) ==
    CASE key = "day_of_week" -> {2, 3}
      [] key = "lab_time" -> {<<"1", "4", ":", "0", "0">>, <<"1", "4", "0", "0">>}
      [] key = "generate_before_minutes" -> {0}
      [] key = "current_practical_number" -> {5}
      [] key = "auto_increment" -> BOOLEAN
      [] key = "status" -> {"active", "paused", "disabled"}

\* Mutant: an edit clears the cool-down
update_schedule_Reset(sid, key, value) ==
    /\ upd < MaxUpdates
    /\ schedules[sid].exists
    /\ schedules' = [schedules EXCEPT ![sid] =
                        [[schedules[sid] EXCEPT ![key] = value]
                            EXCEPT !.last_email_sent = NoTime]]
    /\ upd' = upd + 1
    /\ UNCHANGED <<now, tokens, nextTok, history, outbox, email_enabled, onedrive_enabled, aux>>

\* for key in [...]: if key in data: setattr(schedule, key, data[key])
update_schedule(sid, key, value) ==
    /\ upd < MaxUpdates
    /\ schedules[sid].exists
    /\ schedules' = [schedules EXCEPT ![sid][key] = value]
    /\ upd' = upd + 1
    /\ UNCHANGED <<now, tokens, nextTok, history, outbox, email_enabled, onedrive_enabled, aux>>

\* Mutant: deleting a schedule takes its tokens out of the store
delete_schedule_Purge(sid) ==
    /\ upd < MaxUpdates
    /\ schedules[sid].exists
    /\ schedules' = [schedules EXCEPT ![sid].exists = FALSE]
    /\ tokens' = [k \in {t \in DOMAIN tokens : tokens[t].schedule_id # sid} |-> tokens[k]]
    /\ upd' = upd + 1
    /\ UNCHANGED <<now, nextTok, history, outbox, email_enabled, onedrive_enabled, aux>>

\* db.delete(schedule)
delete_schedule(sid) ==
    /\ upd < MaxUpdates
    /\ schedules[sid].exists
    /\ schedules' = [schedules EXCEPT ![sid].exists = FALSE]
    /\ upd' = upd + 1
    /\ UNCHANGED <<now, tokens, nextTok, history, outbox, email_enabled, onedrive_enabled, aux>>

\* POST /api/schedules/sync with {"modules": [], "schedules": []}: the
\* modules of the user are deleted with Query.delete(), which leaves the
\* schedules of those modules in the table; nothing is added
sync_schedules ==
    /\ upd < MaxUpdates
    /\ schedules' = [sid \in ScheduleIds |->
                        IF schedules[sid].exists
                        THEN [schedules[sid] EXCEPT !.has_module = FALSE]
                        ELSE schedules[sid]]
    /\ upd' = upd + 1
    /\ UNCHANGED <<now, tokens, nextTok, history, outbox, email_enabled, onedrive_enabled, aux>>

-----------------------------------------------------------------------------
(* GET /api/generate/<token> served by the threads of the server: the steps
   of generate_from_email between which another thread can run *)

MaxRequests == 2

Requests == 1..MaxRequests

\* A request not yet received.  tok and data are the token presented and the
\* token_data read from the store, row is the schedule row the session has
\* loaded, after is the set of requests answered before this one arrived.
NewRequest ==
    [pc |-> "new", endpoint |-> "generate", tok |-> 0, schedule_id |-> 0,
     generated |-> FALSE, presented |-> FALSE, counter |-> 0, auto_increment |-> FALSE,
     status |-> "none", answer |-> "none", after |-> {}]

Answered(r, answer) == [reqs EXCEPT ![r].pc = "done", ![r].answer = answer]

\* if token not in tokens ... schedule_id = token_data['schedule_id']
GenValidate(r, tok, generated) ==
    LET arrived == [reqs EXCEPT ![r].tok = tok, ![r].generated = generated,
                                ![r].after = {q \in Requests : reqs[q].pc = "done"}]
    IN  /\ reqs[r].pc = "new"
        /\ UNCHANGED <<now, schedules, nextTok, history, outbox, upd, pass,
                       email_enabled, onedrive_enabled, calc>>
        /\ IF tok \notin DOMAIN tokens
           THEN /\ reqs' = [arrived EXCEPT ![r].pc = "done", ![r].answer = "invalid"]
                /\ UNCHANGED tokens
           ELSE IF now > tokens[tok].expires_at
           THEN /\ reqs' = [arrived EXCEPT ![r].pc = "done", ![r].answer = "expired"]
                /\ tokens' = Del(tokens, tok)
           ELSE /\ reqs' = [arrived EXCEPT ![r].pc = "validated", ![r].presented = TRUE,
                                           ![r].schedule_id = tokens[tok].schedule_id]
                /\ UNCHANGED tokens

\* db.query(Schedule).get(schedule_id) ... document_generator.generate(...),
\* the upload and the confirmation email
GenLoad(r) ==
    LET sch == schedules[reqs[r].schedule_id]
    IN  /\ reqs[r].pc = "validated"
        /\ UNCHANGED <<now, schedules, tokens, nextTok, history, outbox, upd, pass,
                       email_enabled, onedrive_enabled, calc>>
        /\ IF ~sch.exists
           THEN reqs' = Answered(r, "not_found")
           ELSE IF ~sch.has_module \/ ~reqs[r].generated
           THEN reqs' = Answered(r, "error")
           ELSE reqs' = [reqs EXCEPT ![r].pc = "loaded",
                                     ![r].counter = sch.current_practical_number,
                                     ![r].auto_increment = sch.auto_increment,
                                     ![r].status = sch.status]

\* db.add(history) ... db.commit(): the history row and the UPDATE of the
\* schedule row carry the values computed from the row the session loaded
GenCommit(r, uploaded) ==
    LET sid == reqs[r].schedule_id
        row == [schedules[sid] EXCEPT !.current_practical_number = reqs[r].counter,
                                      !.auto_increment = reqs[r].auto_increment]
    IN  /\ reqs[r].pc = "loaded"
        /\ history' = Append(history, HistoryRow(row, uploaded))
        /\ schedules' = [schedules EXCEPT
              ![sid].current_practical_number = Generated(row).current_practical_number,
              ![sid].last_generated_at = Generated(row).last_generated_at]
        /\ reqs' = [reqs EXCEPT ![r].pc = "committed"]
        /\ UNCHANGED <<now, tokens, nextTok, outbox, upd, pass,
                       email_enabled, onedrive_enabled, calc>>

\* del tokens[token] raises KeyError when another request has removed the
\* token; the except clause answers with the error page
GenFinish(r) ==
    /\ reqs[r].pc = "committed"
    /\ UNCHANGED <<now, schedules, nextTok, history, outbox, upd, pass,
                   email_enabled, onedrive_enabled, calc>>
    /\ IF reqs[r].tok \in DOMAIN tokens
       THEN /\ tokens' = Del(tokens, reqs[r].tok)
            /\ reqs' = Answered(r, "success")
       ELSE /\ UNCHANGED tokens
            /\ reqs' = Answered(r, "error")

\* GET /api/skip/<token> in one piece, as request r of the server
SkipRequest(r, tok) ==
    LET answer == SkipAnswer(tok)
    IN  /\ reqs[r].pc = "new"
        /\ reqs' = [reqs EXCEPT
              ![r].pc = "done", ![r].endpoint = "skip", ![r].tok = tok,
              ![r].answer = answer,
              ![r].presented = answer \notin {"invalid", "expired"},
              ![r].schedule_id = IF tok \in DOMAIN tokens
                                 THEN tokens[tok].schedule_id ELSE 0,
              ![r].status = IF answer \in {"skipped", "error"}
                            THEN schedules[tokens[tok].schedule_id].status ELSE "none",
              ![r].after = {q \in Requests : reqs[q].pc = "done"}]
        /\ UNCHANGED <<now, nextTok, upd, history, outbox, pass,
                       email_enabled, onedrive_enabled, calc>>
        /\ CASE answer = "invalid" ->
                  UNCHANGED <<schedules, tokens>>
             [] answer = "expired" ->
                  /\ tokens' = Del(tokens, tok)
                  /\ UNCHANGED schedules
             [] answer = "not_found" ->
                  UNCHANGED <<schedules, tokens>>
             [] answer \in {"skipped", "error"} ->
                  LET sid == tokens[tok].schedule_id
                  IN  /\ schedules' = [schedules EXCEPT ![sid] = Skipped(@)]
                      /\ tokens' = Del(tokens, tok)

-----------------------------------------------------------------------------
(* The email_checker job on the threads of the scheduler *)

Passes == {1, 2}

\* A thread of the scheduler: at is the clock reading of its latest pass,
\* rows the schedules that pass loaded, until the clock when it returned
NoPass == [pc |-> "idle", at |-> NoTime, until |-> NoTime, rows |-> <<>>]

\* Mutant: the job is started on a free thread whether or not a run is in progress
JobCanRun_Always(p) == pass[p].pc = "idle"

\* scheduler.add_job(check_and_send_emails, 'interval', ...) leaves the job
\* with one instance at most: a run is started only when none is in progress
JobCanRun(p) == \A q \in Passes : pass[q].pc = "idle"

\* schedules = db.query(Schedule).filter_by(status='active').all(); now = datetime.now()
ScanBegin(p) ==
    /\ JobCanRun(p)
    /\ pass' = [pass EXCEPT ![p] = [pc |-> "running", at |-> now, until |-> NoTime,
                                    rows |-> schedules]]
    /\ UNCHANGED <<now, schedules, tokens, nextTok, history, outbox, upd, reqs,
                   email_enabled, onedrive_enabled, calc>>

\* The loop over the rows loaded, writing last_email_sent of the rows notified
ScanFinish(p, okSet) ==
    LET r == ScanLoop([db |-> pass[p].rows, tokens |-> tokens, nextTok |-> nextTok,
                       outbox |-> outbox, at |-> pass[p].at],
                      ActiveIds(pass[p].rows), okSet)
    IN  /\ pass[p].pc = "running"
        /\ r.nextTok - 1 <= MaxTokens
        /\ schedules' = [sid \in ScheduleIds |->
              IF r.db[sid].last_email_sent # pass[p].rows[sid].last_email_sent
              THEN [schedules[sid] EXCEPT !.last_email_sent = r.db[sid].last_email_sent]
              ELSE schedules[sid]]
        /\ tokens' = r.tokens
        /\ nextTok' = r.nextTok
        /\ outbox' = r.outbox
        /\ pass' = [pass EXCEPT ![p].pc = "idle", ![p].until = now]
        /\ UNCHANGED <<now, history, upd, reqs, email_enabled, onedrive_enabled, calc>>

-----------------------------------------------------------------------------
(* The clock *)

\* The instants at which the model observes the program: Wednesday of the
\* first week around the 13:00 trigger of a 14:00 lab with a 60 minute lead
\* (301, 300, 0 and -1 seconds before it), one cool-down after 12:55, and the
\* Wednesday after.
WindowInstants ==
    {At(2, 12, 54, 59), At(2, 12, 55, 0), At(2, 13, 0, 0), At(2, 13, 0, 1),
     At(2, 13, 55, 0), At(9, 12, 55, 0)}

\* 24 hours after 12:55:00, to the second and one second later
ExpiryInstants == {At(3, 12, 55, 0), At(3, 12, 55, 1)}

Instants == WindowInstants \cup ExpiryInstants

Tick(t) ==
    /\ t > now
    /\ now' = t
    /\ UNCHANGED <<schedules, tokens, nextTok, history, outbox, upd,
                   email_enabled, onedrive_enabled, aux>>

-----------------------------------------------------------------------------
(* The state after start-up: the schedules created through POST /api/schedules,
   an empty token store, the scheduler started *)

NewSchedule(module_id, day_of_week, lab_time, auto_increment) ==
    [exists |-> TRUE, user_id |-> 1, module_id |-> module_id, has_module |-> TRUE,
     day_of_week |-> day_of_week, lab_time |-> lab_time,
     generate_before_minutes |-> 60, current_practical_number |-> 1,
     auto_increment |-> auto_increment, status |-> "active", skip_dates |-> <<>>,
     upload_to_onedrive |-> TRUE, send_confirmation |-> TRUE,
     last_email_sent |-> NoTime, last_generated_at |-> NoTime]

\* Schedule 1: Wednesday 14:00, auto-increment on.  Schedule 2: Wednesday
\* 14:55, auto-increment off.
TwoSchedules ==
    [sid \in ScheduleIds |->
        IF sid = 1
        THEN NewSchedule(1, 2, <<"1", "4", ":", "0", "0">>, TRUE)
        ELSE NewSchedule(sid, 2, <<"1", "4", ":", "5", "5">>, FALSE)]

\* The same with schedule 2 deleted before start-up
OneSchedule == [TwoSchedules EXCEPT ![2].exists = FALSE]

BootAt(t, db) ==
    /\ now = t
    /\ schedules = db
    /\ tokens = <<>>
    /\ nextTok = 1
    /\ history = <<>>
    /\ outbox = <<>>
    /\ upd = 0
    /\ reqs = [r \in Requests |-> NewRequest]
    /\ pass = [p \in Passes |-> NoPass]

BootWith(db) == BootAt(At(2, 12, 54, 59), db)

Boot == BootWith(OneSchedule)

Init ==
    /\ Boot
    /\ email_enabled \in BOOLEAN
    /\ onedrive_enabled \in BOOLEAN
    /\ calc = NoCall

Next ==
    \/ \E t \in Instants : Tick(t)
    \/ \E okSet \in SUBSET ScheduleIds : check_and_send_emails(okSet)
    \/ \E tok \in 1..MaxTokens, generated, uploaded, mailed \in BOOLEAN :
          generate_from_email(tok, generated, uploaded, mailed)
    \/ \E tok \in 1..MaxTokens : skip_from_email(tok)

Spec == Init /\ [][Next]_vars

-----------------------------------------------------------------------------
(* The same with the schedule update and delete requests, email configured
   and OneDrive not configured *)

InitAdmin ==
    /\ Init
    /\ email_enabled
    /\ ~onedrive_enabled

NextAdmin ==
    \/ \E t \in WindowInstants : Tick(t)
    \/ \E okSet \in SUBSET ScheduleIds : check_and_send_emails(okSet)
    \/ \E tok \in 1..MaxTokens, generated, uploaded, mailed \in BOOLEAN :
          generate_from_email(tok, generated, uploaded, mailed)
    \/ \E tok \in 1..MaxTokens : skip_from_email(tok)
    \/ \E sid \in ScheduleIds, key \in UpdateKeys :
          \E value \in UpdateValues(key) : update_schedule(sid, key, value)
    \/ \E sid \in ScheduleIds : delete_schedule(sid)

SpecAdmin == InitAdmin /\ [][NextAdmin]_vars

-----------------------------------------------------------------------------
(* Both schedules, email configured: schedule 1 fires at 12:55:00 for its
   13:00 trigger, schedule 2 at 13:55:00 for its 13:55 trigger *)

TwoInstants == {At(2, 12, 55, 0), At(2, 13, 55, 0)}

InitTwo ==
    /\ BootWith(TwoSchedules)
    /\ email_enabled = TRUE
    /\ onedrive_enabled = FALSE
    /\ calc = NoCall

NextTwo ==
    \/ \E t \in TwoInstants : Tick(t)
    \/ \E okSet \in SUBSET ScheduleIds : check_and_send_emails(okSet)
    \/ \E tok \in 1..MaxTokens, generated, uploaded, mailed \in BOOLEAN :
          generate_from_email(tok, generated, uploaded, mailed)
    \/ \E tok \in 1..MaxTokens : skip_from_email(tok)

SpecTwo == InitTwo /\ [][NextTwo]_vars

-----------------------------------------------------------------------------
(* The threads, email configured, around the 13:00 trigger *)

ConcInstants == {At(2, 12, 54, 59), At(2, 12, 55, 0), At(2, 13, 0, 0), At(2, 13, 0, 1)}

InitConc ==
    /\ Boot
    /\ email_enabled = TRUE
    /\ onedrive_enabled = FALSE
    /\ calc = NoCall

\* Two generate requests interleaved step by step, the scan in one piece
NextReq ==
    \/ \E t \in ConcInstants : Tick(t)
    \/ \E okSet \in SUBSET ScheduleIds : check_and_send_emails(okSet)
    \/ \E r \in Requests, tok \in 1..MaxTokens, generated \in BOOLEAN :
          GenValidate(r, tok, generated)
    \/ \E r \in Requests : GenLoad(r)
    \/ \E r \in Requests, uploaded \in BOOLEAN : GenCommit(r, uploaded)
    \/ \E r \in Requests : GenFinish(r)

SpecReq == InitConc /\ [][NextReq]_vars

\* The runs of the email_checker job step by step
NextJob ==
    \/ \E t \in ConcInstants : Tick(t)
    \/ \E p \in Passes : ScanBegin(p)
    \/ \E p \in Passes, okSet \in SUBSET ScheduleIds : ScanFinish(p, okSet)

SpecJob == InitConc /\ [][NextJob]_vars

-----------------------------------------------------------------------------
(* The runs of the email_checker job step by step with the skip requests *)

NextSkip ==
    \/ \E t \in ConcInstants : Tick(t)
    \/ \E p \in Passes : ScanBegin(p)
    \/ \E p \in Passes, okSet \in SUBSET ScheduleIds : ScanFinish(p, okSet)
    \/ \E tok \in 1..MaxTokens : skip_from_email(tok)

SpecSkip == InitConc /\ [][NextSkip]_vars

-----------------------------------------------------------------------------
(* The email_checker job on its interval trigger and nothing else: the clock
   moves from one firing of the trigger to the next.  The first firing is one
   interval after scheduler.start(), at any minute from 12:30 to 12:44. *)

IntervalMinutes == 15

ScanInterval == IntervalMinutes * SecondsPerMinute

FirstRunInstants == {At(2, 12, 30 + k, 0) : k \in 0..14}

LastRunInstant == At(2, 13, 15, 0)

\* The trigger fires: the job has not run at this instant yet
JobFires(p) ==
    /\ \A q \in Passes : pass[q].at # now
    /\ ScanBegin(p)

\* The run has returned; the next firing is one interval later
IntervalElapsed ==
    /\ \A q \in Passes : pass[q].pc = "idle"
    /\ \E q \in Passes : pass[q].at = now
    /\ now + ScanInterval <= LastRunInstant
    /\ now' = now + ScanInterval
    /\ UNCHANGED <<schedules, tokens, nextTok, history, outbox, upd, reqs, pass,
                   email_enabled, onedrive_enabled, calc>>

InitPeriodic ==
    /\ \E t \in FirstRunInstants : BootAt(t, OneSchedule)
    /\ email_enabled = TRUE
    /\ onedrive_enabled = FALSE
    /\ calc = NoCall

NextPeriodic ==
    \/ IntervalElapsed
    \/ \E p \in Passes : JobFires(p)
    \/ \E p \in Passes, okSet \in SUBSET ScheduleIds : ScanFinish(p, okSet)

SpecPeriodic == InitPeriodic /\ [][NextPeriodic]_vars

-----------------------------------------------------------------------------
(* The runs of the email_checker job step by step with PUT requests that
   carry the key status, from a schedule in any of the three statuses the
   column comment names *)

Statuses == {"active", "paused", "disabled"}

\* The values of data['status'] in the requests of the model
StatusValues == Statuses \cup {"archived"}

InitStatus ==
    /\ \E status \in Statuses : BootWith([OneSchedule EXCEPT ![1].status = status])
    /\ email_enabled = TRUE
    /\ onedrive_enabled = FALSE
    /\ calc = NoCall

NextStatus ==
    \/ \E t \in ConcInstants : Tick(t)
    \/ \E p \in Passes : ScanBegin(p)
    \/ \E p \in Passes, okSet \in SUBSET ScheduleIds : ScanFinish(p, okSet)
    \/ \E sid \in ScheduleIds, value \in StatusValues : update_schedule(sid, "status", value)

SpecStatus == InitStatus /\ [][NextStatus]_vars

-----------------------------------------------------------------------------
(* The runs of the email_checker job over two schedules of Wednesday 14:00,
   any of which was created with a lab_time that
   calculate_next_generation_time cannot parse: no colon (IndexError), a
   minute that is not a number (ValueError), hour 24 (ValueError of replace) *)

BadLabTimes == {<<"1", "4", "0", "0">>, <<"1", "4", ":", "x", "x">>,
                <<"2", "4", ":", "0", "0">>}

\* POST /api/schedules stores data['lab_time'] as received
SameTimeSchedules(bad, lab_time) ==
    [sid \in ScheduleIds |->
        NewSchedule(sid, 2, IF sid \in bad THEN lab_time ELSE <<"1", "4", ":", "0", "0">>,
                    TRUE)]

InitBad ==
    /\ \E bad \in SUBSET ScheduleIds, lab_time \in BadLabTimes :
          BootWith(SameTimeSchedules(bad, lab_time))
    /\ email_enabled = TRUE
    /\ onedrive_enabled = FALSE
    /\ calc = NoCall

NextBad ==
    \/ \E t \in ConcInstants : Tick(t)
    \/ \E p \in Passes : ScanBegin(p)
    \/ \E p \in Passes, okSet \in SUBSET ScheduleIds : ScanFinish(p, okSet)

SpecBad == InitBad /\ [][NextBad]_vars

-----------------------------------------------------------------------------
(* The email-button requests with the requests that remove the schedule or
   its module, at 12:55:00, the start of the firing window; the requests
   present tokens that are in the store, the document generator and the
   mail server work *)

InitGone ==
    /\ BootAt(At(2, 12, 55, 0), OneSchedule)
    /\ email_enabled = TRUE
    /\ onedrive_enabled = FALSE
    /\ calc = NoCall

NextGone ==
    \/ check_and_send_emails({1})
    \/ \E r \in Requests, tok \in DOMAIN tokens : GenValidate(r, tok, TRUE)
    \/ \E r \in Requests : GenLoad(r)
    \/ \E r \in Requests : GenCommit(r, FALSE)
    \/ \E r \in Requests : GenFinish(r)
    \/ \E r \in Requests, tok \in DOMAIN tokens : SkipRequest(r, tok)
    \/ \E sid \in ScheduleIds : delete_schedule(sid)
    \/ sync_schedules

SpecGone == InitGone /\ [][NextGone]_vars

-----------------------------------------------------------------------------
(* The runs of the email_checker job and the skip requests over two weeks:
   12:55:00 on Wednesday and on the Wednesday after *)

WeekInstants == {At(2, 12, 55, 0), At(9, 12, 55, 0)}

NextWeek ==
    \/ \E t \in WeekInstants : Tick(t)
    \/ \E p \in Passes : ScanBegin(p)
    \/ \E p \in Passes, okSet \in SUBSET ScheduleIds : ScanFinish(p, okSet)
    \/ \E tok \in 1..MaxTokens : skip_from_email(tok)

SpecWeek == InitConc /\ [][NextWeek]_vars

-----------------------------------------------------------------------------
(* The runs of the email_checker job around two triggers of one day: 13:00
   with the lead time of 60 minutes, and 14:00 once a PUT request has set
   the lead time to 0.  13:55:00 is 3600 seconds after 12:55:00 and 3300
   seconds after 13:00:00. *)

CoolInstants == {At(2, 12, 55, 0), At(2, 13, 0, 0), At(2, 13, 55, 0)}

NextCool ==
    \/ \E t \in CoolInstants : Tick(t)
    \/ \E p \in Passes : ScanBegin(p)
    \/ \E p \in Passes, okSet \in SUBSET ScheduleIds : ScanFinish(p, okSet)
    \/ update_schedule(1, "generate_before_minutes", 0)

SpecCool == InitConc /\ [][NextCool]_vars

-----------------------------------------------------------------------------
(* The email-button requests at 12:55:00 presenting any token value, in the
   store or not; the document generator and the mail server work *)

NextAny ==
    \/ check_and_send_emails({1})
    \/ \E r \in Requests, tok \in 1..MaxTokens : GenValidate(r, tok, TRUE)
    \/ \E r \in Requests : GenLoad(r)
    \/ \E r \in Requests : GenCommit(r, FALSE)
    \/ \E r \in Requests : GenFinish(r)
    \/ \E r \in Requests, tok \in 1..MaxTokens : SkipRequest(r, tok)

SpecAny == InitGone /\ [][NextAny]_vars

-----------------------------------------------------------------------------
(* The PUT requests at 12:55:00 with the scan and the email-button requests
   that give the schedule a cool-down, a skip date and a generation time;
   the requests present tokens that are in the store and the document
   generator works *)

NextEdit ==
    \/ \E okSet \in SUBSET {1} : check_and_send_emails(okSet)
    \/ \E tok \in DOMAIN tokens : generate_from_email(tok, TRUE, FALSE, FALSE)
    \/ \E tok \in DOMAIN tokens : skip_from_email(tok)
    \/ \E sid \in ScheduleIds, key \in UpdateKeys :
          \E value \in UpdateValues(key) : update_schedule(sid, key, value)

SpecEdit == InitGone /\ [][NextEdit]_vars

-----------------------------------------------------------------------------
(* The email-button requests at 12:55:00 with PUT requests that carry the
   key status; the requests present tokens that are in the store, the
   document generator and the mail server work *)

NextPaused ==
    \/ check_and_send_emails({1})
    \/ \E r \in Requests, tok \in DOMAIN tokens : GenValidate(r, tok, TRUE)
    \/ \E r \in Requests : GenLoad(r)
    \/ \E r \in Requests : GenCommit(r, FALSE)
    \/ \E r \in Requests : GenFinish(r)
    \/ \E r \in Requests, tok \in DOMAIN tokens : SkipRequest(r, tok)
    \/ \E sid \in ScheduleIds, value \in StatusValues : update_schedule(sid, "status", value)

SpecPaused == InitGone /\ [][NextPaused]_vars

-----------------------------------------------------------------------------
(* The token store from the 13:00 trigger of schedule 1 to the second after
   its first tokens expire: the scans (delivery may fail at 12:55:00 and be
   retried at 13:00:00), the email-button requests with a working document
   generator, and the delete and sync requests *)

StoreInstants == {At(2, 12, 55, 0), At(2, 13, 0, 0), At(3, 12, 55, 0), At(3, 12, 55, 1)}

NextStore ==
    \/ \E t \in StoreInstants : Tick(t)
    \/ \E okSet \in SUBSET {1} : check_and_send_emails(okSet)
    \/ \E tok \in 1..MaxTokens : generate_from_email(tok, TRUE, FALSE, FALSE)
    \/ \E tok \in 1..MaxTokens : skip_from_email(tok)
    \/ \E sid \in ScheduleIds : delete_schedule(sid)
    \/ sync_schedules

SpecStore == InitConc /\ [][NextStore]_vars

-----------------------------------------------------------------------------
(* calculate_next_generation_time on its own, over every weekday, lab times
   at both ends of the day, lead times up to more than a week, and clock
   readings around midnight and around the lab time *)

CalcDays == 7

LabTimes == {<<"0", "0", ":", "0", "0">>, <<"1", "4", ":", "0", "0">>,
             <<"2", "3", ":", "5", "9">>}

LeadMinutes == {0, 60, 1500, 10080, 10081}

ClockReadings == {<<0, 0, 0>>, <<12, 57, 0>>, <<13, 1, 0>>, <<13, 59, 59>>,
                  <<14, 0, 0>>, <<14, 1, 0>>, <<23, 59, 59>>}

CalcInstants == {At(d, c[1], c[2], c[3]) : d \in 0..CalcDays, c \in ClockReadings}

InitCalc ==
    /\ Boot
    /\ email_enabled = TRUE
    /\ onedrive_enabled = TRUE
    /\ \E d \in 0..6, lt \in LabTimes, lead \in LeadMinutes, t \in CalcInstants :
          calc = Call(d, lt, lead, t)

NextCalc == Calculate

SpecCalc == InitCalc /\ [][NextCalc]_vars

-----------------------------------------------------------------------------
(* C3 *)

\* C3 as stated: the instant returned is never earlier than the clock reading.
C3_TriggerNeverBeforeNow ==
    calc.returned /\ ~calc.result.err => calc.result.t >= calc.at

\* C3 as amended: the instant returned is later than the clock reading minus
\* the lead time (the lab instant, the instant returned plus the lead time,
\* is strictly later than the clock reading); so with a lead time of 0 the
\* instant returned is never earlier than the clock reading.
C3_TriggerAfterNowMinusLead ==
    calc.returned /\ ~calc.result.err =>
        calc.result.t > calc.at - calc.generate_before_minutes * SecondsPerMinute

\* Wednesday 14:00 lab, lead 60, called on Wednesday 13:01: the instant
\* returned is Wednesday 13:00, one minute in the past
C3_Witness ==
    /\ calc.returned /\ ~calc.result.err
    /\ calc.generate_before_minutes = 60
    /\ calc.at = At(2, 13, 1, 0)
    /\ calc.result.t = At(2, 13, 0, 0)

-----------------------------------------------------------------------------
(* C1, C2, C8: the generate requests of SpecReq *)

\* The schedule a request is about
Counter(r) == schedules[reqs[r].schedule_id].current_practical_number

\* C1 as stated: two requests that present the same valid token apply its
\* effect at most once: the counter advances by at most 1 and at most one
\* history row is appended.
C1_EffectAppliedAtMostOnce ==
    \A r1, r2 \in Requests :
        /\ r1 # r2
        /\ reqs[r1].presented /\ reqs[r2].presented
        /\ reqs[r1].tok = reqs[r2].tok
        => /\ Len(history) <= 1
           /\ Counter(r1) <= OneSchedule[reqs[r1].schedule_id].current_practical_number + 1

\* C2 as stated: once a request has presented a token that is present and not
\* expired and has been answered, a later request presenting the same token
\* is answered as not found ("invalid"), whatever the first answer was.
C2_ConsumedExactlyOnce ==
    \A r1, r2 \in Requests :
        /\ reqs[r1].pc = "done" /\ reqs[r1].presented
        /\ reqs[r2].pc = "done" /\ r1 \in reqs[r2].after
        /\ reqs[r2].tok = reqs[r1].tok
        => reqs[r2].answer = "invalid"

\* C8 as stated: when document generation fails for a valid generate token of
\* an auto-increment schedule the counter increment is applied all the same.
C8_IncrementSurvivesGenerationFailure ==
    \A r \in Requests :
        /\ reqs[r].pc = "done" /\ reqs[r].presented /\ ~reqs[r].generated
        /\ schedules[reqs[r].schedule_id].exists
        /\ schedules[reqs[r].schedule_id].auto_increment
        => Counter(r) > OneSchedule[reqs[r].schedule_id].current_practical_number

-----------------------------------------------------------------------------
(* C6, C10: the runs of the email_checker job of SpecJob *)

Settled(p, sid) ==
    /\ pass[p].pc = "idle" /\ pass[p].until # NoTime
    /\ pass[p].until = pass[p].at
    /\ sid \in ActiveIds(pass[p].rows)
    /\ pass[p].rows[sid].last_email_sent = NoTime
    /\ pass[p].rows[sid].skip_dates = <<>>

\* The notification of schedule sid was handed to the mail server by the run at time t
Notified(sid, t) ==
    \E i \in 1..Len(outbox) : outbox[i].schedule_id = sid /\ outbox[i].at = t

\* C10: a scan at time now notifies an active schedule exactly when
\* delta = trigger - now satisfies 0 <= delta <= 300; the trigger of the
\* Wednesday 14:00 lab with a 60 minute lead is Wednesday 13:00.
C10_WindowClosedAtBothEnds ==
    \A p \in Passes, sid \in ScheduleIds :
        Settled(p, sid) =>
            LET delta == At(2, 13, 0, 0) - pass[p].at
            IN  Notified(sid, pass[p].at) <=> (0 <= delta /\ delta <= 300)

\* Runs at delta = 300 and delta = 0 have notified, the first without
\* delivery; runs at delta = 301 and delta = -1 are not in the outbox
C10_Witness ==
    /\ now = At(2, 13, 0, 1)
    /\ Len(outbox) = 2
    /\ outbox[1].at = At(2, 12, 55, 0) /\ ~outbox[1].success
    /\ outbox[2].at = At(2, 13, 0, 0)
    /\ \E p \in Passes : Settled(p, 1) /\ pass[p].at = At(2, 13, 0, 1)

-----------------------------------------------------------------------------
(* C4, C5: the cool-down *)

\* C4: any two notifications of one schedule that were both delivered are at
\* least 3600 seconds apart, whatever scans, consumptions and schedule
\* updates come between them.
C4_DeliveredOneCoolDownApart ==
    \A i, j \in 1..Len(outbox) :
        /\ i < j
        /\ outbox[i].schedule_id = outbox[j].schedule_id
        /\ outbox[i].success /\ outbox[j].success
        => outbox[j].at - outbox[i].at >= 3600

\* Two notifications delivered exactly 3600 seconds apart: 12:55:00 for the
\* 13:00 trigger and, the lead time set to 0 in between, 13:55:00 for 14:00
C4_Witness ==
    \E i, j \in 1..Len(outbox) :
        /\ i < j
        /\ outbox[i].schedule_id = outbox[j].schedule_id
        /\ outbox[i].success /\ outbox[j].success
        /\ outbox[i].at = At(2, 12, 55, 0)
        /\ outbox[j].at = At(2, 13, 55, 0)

\* C5: once a run of the scan has delivered the notification of a schedule,
\* a run within the same 5-minute window (at most 300 seconds later) hands
\* no further notification of that schedule to the mail server and issues no
\* further token for it: the firing keeps its one generate/skip pair.
C5_ScanIdempotentInWindow ==
    \A i \in 1..Len(outbox) :
        outbox[i].success =>
            /\ \A j \in 1..Len(outbox) :
                  j > i /\ outbox[j].schedule_id = outbox[i].schedule_id
                  => outbox[j].at > outbox[i].at + 300
            /\ \A tok \in DOMAIN tokens :
                  /\ tokens[tok].schedule_id = outbox[i].schedule_id
                  /\ tokens[tok].created_at <= outbox[i].at + 300
                  => tok <= outbox[i].skip_token

\* The run of 12:55:00 delivered; the run of 13:00:00, in the same window,
\* has loaded the row that run wrote and has returned: one notification, one
\* pair of tokens
C5_Witness ==
    /\ Len(outbox) = 1 /\ outbox[1].success /\ outbox[1].at = At(2, 12, 55, 0)
    /\ nextTok = 3 /\ DOMAIN tokens = {1, 2}
    /\ \E p \in Passes :
          /\ pass[p].pc = "idle"
          /\ pass[p].at = At(2, 13, 0, 0) /\ pass[p].until = At(2, 13, 0, 0)
          /\ pass[p].rows[1].last_email_sent = At(2, 12, 55, 0)

-----------------------------------------------------------------------------
(* C7, C9: the successful generate request *)

\* What a generate request that is answered with the success page does to
\* the schedule of its token, to the history and to the token
Consumed(tok) ==
    LET sid == tokens[tok].schedule_id
    IN  /\ schedules'[sid].current_practical_number =
              schedules[sid].current_practical_number
                 + (IF schedules[sid].auto_increment THEN 1 ELSE 0)
        /\ schedules'[sid].last_generated_at = UtcNow(now)
        /\ Len(history') = Len(history) + 1
        /\ SubSeq(history', 1, Len(history)) = history

\* C7: a successful generate request increases the counter by exactly 1 when
\* auto_increment is true and leaves it unchanged when it is false; in both
\* cases last_generated_at is set and exactly one history row is appended.
C7_SuccessfulGenerate ==
    [][\A tok \in 1..MaxTokens, uploaded, mailed \in BOOLEAN :
          /\ GenerateAnswer(tok, TRUE, uploaded, mailed) = "success"
          /\ generate_from_email(tok, TRUE, uploaded, mailed)
          => Consumed(tok)]_vars

\* Generated for schedule 1, auto_increment on (practical 1, counter now 2),
\* then for schedule 2, auto_increment off (practical 1, counter still 1)
C7_Witness ==
    /\ Len(history) = 2
    /\ history[1].module_code = 1 /\ history[1].practical_number = 1
    /\ history[2].module_code = 2 /\ history[2].practical_number = 1
    /\ schedules[1].auto_increment /\ schedules[1].current_practical_number = 2
    /\ ~schedules[2].auto_increment /\ schedules[2].current_practical_number = 1
    /\ schedules[1].last_generated_at = At(2, 12, 55, 0)
    /\ schedules[2].last_generated_at = At(2, 13, 55, 0)

\* C9: when the upload or the confirmation email returns failure for a
\* generate request that presented a valid token, the request still
\* completes: the counter advances as auto_increment says, one history row
\* is appended and the token is deleted.
C9_DeliveryFailureStillConsumes ==
    [][\A tok \in 1..MaxTokens, uploaded, mailed \in BOOLEAN :
          /\ ~uploaded \/ ~mailed
          /\ tok \in DOMAIN tokens /\ now <= tokens[tok].expires_at
          /\ generate_from_email(tok, TRUE, uploaded, mailed)
          => /\ schedules'[tokens[tok].schedule_id].current_practical_number =
                   schedules[tokens[tok].schedule_id].current_practical_number
                      + (IF schedules[tokens[tok].schedule_id].auto_increment THEN 1 ELSE 0)
             /\ Len(history') = Len(history) + 1
             /\ tok \notin DOMAIN tokens']_vars

\* OneDrive configured and the upload failed: the history row has no link,
\* the counter has advanced, the generate token is gone
C9_Witness ==
    /\ onedrive_enabled /\ schedules[1].upload_to_onedrive
    /\ Len(history) = 1 /\ history[1].onedrive_link = "none"
    /\ schedules[1].current_practical_number = 2
    /\ 1 \notin DOMAIN tokens /\ 2 \in DOMAIN tokens

-----------------------------------------------------------------------------
(* C11: on which side of the trigger the firing window lies *)

\* C11 as stated: the firing window is the 5 minutes after the trigger: a run
\* of the scan at a time with trigger <= now <= trigger + 5 minutes notifies
\* the schedule (trigger: Wednesday 13:00).
C11_WindowAfterTrigger ==
    \A p \in Passes, sid \in ScheduleIds :
        /\ Settled(p, sid)
        /\ At(2, 13, 0, 0) <= pass[p].at /\ pass[p].at <= At(2, 13, 5, 0)
        => Notified(sid, pass[p].at)

\* C11 as amended: the firing window is the 5 minutes before the trigger: a
\* run at a time with trigger - 5 minutes <= now <= trigger notifies the
\* schedule, a run earlier or later than that does not.
C11_WindowBeforeTrigger ==
    \A p \in Passes, sid \in ScheduleIds :
        Settled(p, sid) =>
            /\ At(2, 12, 55, 0) <= pass[p].at /\ pass[p].at <= At(2, 13, 0, 0)
               => Notified(sid, pass[p].at)
            /\ pass[p].at < At(2, 12, 55, 0) \/ pass[p].at > At(2, 13, 0, 0)
               => ~Notified(sid, pass[p].at)

\* A run one second after the trigger has returned and nothing was ever
\* handed to the mail server
C11_Witness ==
    /\ outbox = <<>> /\ tokens = <<>>
    /\ \E p \in Passes : Settled(p, 1) /\ pass[p].at = At(2, 13, 0, 1)

-----------------------------------------------------------------------------
(* C12: the interval of the job against the firing window *)

\* C12 as stated: the interval of the job is short enough for the firing
\* window: once the trigger of Wednesday 13:00 is past, a run of the job has
\* found the schedule inside the firing window of that trigger.
C12_NoFireMissed ==
    now > At(2, 13, 0, 0) =>
        \E i \in 1..Len(outbox) :
            /\ outbox[i].schedule_id = 1
            /\ At(2, 12, 55, 0) <= outbox[i].at /\ outbox[i].at <= At(2, 13, 0, 0)

-----------------------------------------------------------------------------
(* C13: the rollover to the following week *)

\* Today's lab instant of a call: the day of the clock reading at lab_time
LabToday == Replace(calc.at, LabHour(calc.lab_time), LabMinute(calc.lab_time))

\* C13: called on the weekday of the schedule at or after today's lab
\* instant, the function returns the lab time 7 days later minus the lead
\* time; called on that weekday before the lab instant, today's lab time
\* minus the lead time.
C13_RolloverOnLabDay ==
    calc.returned /\ ~calc.result.err /\ Weekday(calc.at) = calc.day_of_week =>
        calc.result.t =
            (IF calc.at >= LabToday THEN LabToday + 7 * 86400 ELSE LabToday)
               - calc.generate_before_minutes * 60

\* Wednesday 14:00 lab, lead 60: called at 14:00:00 sharp the function
\* returns the following Wednesday 13:00
C13_Witness ==
    /\ calc.returned /\ ~calc.result.err
    /\ calc.day_of_week = 2 /\ calc.generate_before_minutes = 60
    /\ calc.at = At(2, 14, 0, 0)
    /\ calc.result.t = At(9, 13, 0, 0)

-----------------------------------------------------------------------------
(* C14: skip dates suppress the scan *)

\* The run p has loaded schedule sid with the date of the run in its skip_dates
SkippedToday(p, sid) ==
    \E i \in 1..Len(pass[p].rows[sid].skip_dates) :
        pass[p].rows[sid].skip_dates[i] = IsoDate(pass[p].at)

\* C14: a run of the scan that finds today's date in the skip_dates of a
\* schedule issues no token for that schedule, hands no notification of it
\* to the mail server and leaves its last_email_sent alone, whatever the
\* window and the cool-down say.
C14_SkipDateSuppressesScan ==
    [][\A p \in Passes, okSet \in SUBSET ScheduleIds :
          pass[p].pc = "running" /\ ScanFinish(p, okSet) =>
              \A sid \in ScheduleIds :
                  SkippedToday(p, sid) =>
                      /\ \A tok \in DOMAIN tokens' \ DOMAIN tokens :
                            tokens'[tok].schedule_id # sid
                      /\ \A i \in (Len(outbox) + 1)..Len(outbox') :
                            outbox'[i].schedule_id # sid
                      /\ schedules'[sid].last_email_sent
                            = schedules[sid].last_email_sent]_vars

\* The notification of 12:55:00 was not delivered and the week was skipped;
\* the run of 13:00:00, in the window and with no cool-down, has returned
\* without issuing a token
C14_Witness ==
    /\ nextTok = 3 /\ Len(outbox) = 1
    /\ schedules[1].last_email_sent = NoTime
    /\ \E p \in Passes :
          /\ pass[p].pc = "idle" /\ pass[p].until = At(2, 13, 0, 0)
          /\ pass[p].at = At(2, 13, 0, 0)
          /\ SkippedToday(p, 1)
          /\ pass[p].rows[1].last_email_sent = NoTime

-----------------------------------------------------------------------------
(* C15: the action a token was issued for *)

\* The counter, the generation time and the history as one value, and the
\* skip dates
GenerateState(sid) ==
    <<schedules[sid].current_practical_number, schedules[sid].last_generated_at, history>>

SkipState(sid) == schedules[sid].skip_dates

\* C15 as stated: a request that uses up a token issued for skip leaves the
\* counter, the generation time and the history alone, and a request that
\* uses up a token issued for generate leaves the skip dates alone.
C15_TokenBoundToAction ==
    [][\A tok \in DOMAIN tokens :
          tok \notin DOMAIN tokens' =>
              \A sid \in {tokens[tok].schedule_id} :
                  /\ tokens[tok].action = "skip" => GenerateState(sid)' = GenerateState(sid)
                  /\ tokens[tok].action = "generate" => SkipState(sid)' = SkipState(sid)]_vars

-----------------------------------------------------------------------------
(* C16: the expiry of a token *)

\* What a request that presents the expired token tok does
ExpiredAway(tok) ==
    /\ tok \notin DOMAIN tokens'
    /\ schedules' = schedules
    /\ history' = history
    /\ \A generated \in BOOLEAN : GenerateAnswer(tok, generated, TRUE, TRUE)' = "invalid"
    /\ SkipAnswer(tok)' = "invalid"

\* C16: a token expires 24 hours after it was issued.  Up to and including
\* expires_at both endpoints accept it; later than that a request that
\* presents it is answered "Link has expired", the token is deleted, the
\* schedules and the history are left alone, and a later request with the
\* same token is answered "Invalid or expired link".
C16_TokenExpiresAfterOneDay ==
    [][\A tok \in DOMAIN tokens :
          /\ tokens[tok].expires_at = tokens[tok].created_at + 24 * 3600
          /\ now <= tokens[tok].expires_at =>
                /\ GenerateAnswer(tok, TRUE, TRUE, TRUE) \notin {"invalid", "expired"}
                /\ SkipAnswer(tok) \notin {"invalid", "expired"}
          /\ now > tokens[tok].expires_at =>
                /\ \A generated, uploaded, mailed \in BOOLEAN :
                      generate_from_email(tok, generated, uploaded, mailed) =>
                          /\ GenerateAnswer(tok, generated, uploaded, mailed) = "expired"
                          /\ ExpiredAway(tok)
                /\ skip_from_email(tok) =>
                      SkipAnswer(tok) = "expired" /\ ExpiredAway(tok)]_vars

\* Of the two tokens issued at 12:55:00, one was presented 24 hours later to
\* the second and served, the other one second after that and deleted
C16_Witness ==
    /\ now = At(3, 12, 55, 1)
    /\ nextTok = 3 /\ DOMAIN tokens = {}
    /\ Len(history) = 1
    /\ schedules[1].last_generated_at = At(3, 12, 55, 0)
    /\ schedules[1].skip_dates = <<>>

-----------------------------------------------------------------------------
(* C17: the tokens of one firing *)

\* C17: a request that uses up a token leaves every other token in the
\* store as it was, and so the token issued with it is still accepted by
\* either endpoint, until it is used up itself or expires.
C17_SiblingTokensIndependent ==
    [][\A tok \in DOMAIN tokens :
          tok \notin DOMAIN tokens' =>
              \A other \in DOMAIN tokens \ {tok} :
                  /\ other \in DOMAIN tokens'
                  /\ tokens'[other] = tokens[other]
                  /\ now <= tokens[other].expires_at =>
                        /\ GenerateAnswer(other, TRUE, TRUE, TRUE)' = "success"
                        /\ SkipAnswer(other)' = "skipped"]_vars

\* The generate token of the firing of 12:55:00 was used first (history of
\* one row), its skip token after it (today on the skip list)
C17_Witness ==
    /\ now = At(2, 12, 55, 0)
    /\ nextTok = 3 /\ DOMAIN tokens = {}
    /\ Len(history) = 1
    /\ schedules[1].skip_dates = <<IsoDate(At(2, 12, 55, 0))>>

-----------------------------------------------------------------------------
(* C18: skipping twice on one day *)

\* Today's date is on the skip list of schedule sid
OnSkipList(sid) ==
    \E i \in 1..Len(schedules[sid].skip_dates) :
        schedules[sid].skip_dates[i] = IsoDate(now)

\* C18: a skip request with a token that is in the store and has not
\* expired appends today's date to skip_dates when it is not there and
\* leaves skip_dates as it is when it is; either way the token is deleted
\* and the counter is unchanged.
C18_SkipIdempotent ==
    [][\A tok \in DOMAIN tokens :
          now <= tokens[tok].expires_at /\ skip_from_email(tok) =>
              \A sid \in {tokens[tok].schedule_id} :
                  /\ schedules'[sid].skip_dates =
                        IF OnSkipList(sid)
                        THEN schedules[sid].skip_dates
                        ELSE Append(schedules[sid].skip_dates, IsoDate(now))
                  /\ tok \notin DOMAIN tokens'
                  /\ schedules'[sid].current_practical_number
                        = schedules[sid].current_practical_number]_vars

\* Two firings on Wednesday (12:55:00 undelivered, 13:00:00); the skip
\* tokens of both were used, the generate tokens are in the store, and the
\* date is on the list once
C18_Witness ==
    /\ DayOf(now) = 2
    /\ nextTok = 5 /\ DOMAIN tokens = {1, 3}
    /\ history = <<>>
    /\ schedules[1].skip_dates = <<IsoDate(At(2, 13, 0, 0))>>
    /\ schedules[1].current_practical_number = 1

-----------------------------------------------------------------------------
(* C19: who writes the counter *)

\* C19 as stated: the counter of an existing schedule changes only in a
\* step of a successful generate request, one that appends a history row and
\* uses up a token; no scan, skip request or schedule update changes it.
C19_CounterOnlyByGenerate ==
    [][\A sid \in ScheduleIds :
          /\ schedules[sid].exists /\ schedules'[sid].exists
          /\ schedules'[sid].current_practical_number
                # schedules[sid].current_practical_number
          => /\ Len(history') = Len(history) + 1
             /\ \E tok \in DOMAIN tokens :
                   tok \notin DOMAIN tokens' /\ tokens[tok].schedule_id = sid]_vars

-----------------------------------------------------------------------------
(* C20: the skip list only grows *)

\* C20: in every step the skip_dates of an existing schedule keep all their
\* entries, in place, and get a new entry only in a step of a skip request,
\* one that uses up a token of the schedule and leaves the counter and the
\* history alone: no scan, generate request or schedule update adds or
\* removes a date.
C20_SkipDatesOnlyGrow ==
    [][\A sid \in ScheduleIds :
          schedules[sid].exists /\ schedules'[sid].exists =>
              /\ Len(schedules'[sid].skip_dates) >= Len(schedules[sid].skip_dates)
              /\ SubSeq(schedules'[sid].skip_dates, 1, Len(schedules[sid].skip_dates))
                    = schedules[sid].skip_dates
              /\ schedules'[sid].skip_dates # schedules[sid].skip_dates =>
                    /\ \E tok \in DOMAIN tokens : skip_from_email(tok)
                    /\ history' = history]_vars

\* Skipped on Wednesday and, after an update of the schedule, on the
\* Wednesday after: both dates are on the list
C20_Witness ==
    /\ upd = 1
    /\ schedules[1].exists
    /\ schedules[1].skip_dates = <<IsoDate(At(2, 12, 55, 0)), IsoDate(At(9, 12, 55, 0))>>

-----------------------------------------------------------------------------
(* C21: the scan and the status *)

\* C21: a run of the scan that loaded a schedule with a status other than
\* active (paused, disabled) issues no token for it, hands no notification
\* of it to the mail server and leaves its last_email_sent alone, even
\* inside the firing window.
C21_OnlyActiveScanned ==
    [][\A p \in Passes, okSet \in SUBSET ScheduleIds :
          pass[p].pc = "running" /\ ScanFinish(p, okSet) =>
              \A sid \in ScheduleIds :
                  pass[p].rows[sid].status # "active" =>
                      /\ \A tok \in DOMAIN tokens' \ DOMAIN tokens :
                            tokens'[tok].schedule_id # sid
                      /\ \A i \in (Len(outbox) + 1)..Len(outbox') :
                            outbox'[i].schedule_id # sid
                      /\ schedules'[sid].last_email_sent
                            = schedules[sid].last_email_sent]_vars

\* The schedule was paused by a PUT request; the run of 12:55:00, at the
\* start of the window, has returned with nothing issued and nothing sent
C21_Witness ==
    /\ upd = 1 /\ schedules[1].status = "paused"
    /\ tokens = <<>> /\ outbox = <<>> /\ schedules[1].last_email_sent = NoTime
    /\ \E p \in Passes :
          /\ pass[p].pc = "idle" /\ pass[p].until = At(2, 12, 55, 0)
          /\ pass[p].at = At(2, 12, 55, 0)
          /\ pass[p].rows[1].status = "paused"

-----------------------------------------------------------------------------
(* C22, C23: the values of status *)

\* C22 as stated: from status disabled the only change of status any
\* operation makes to a schedule is to active, never to paused or to
\* anything else.
C22_DisabledOnlyReactivated ==
    [][\A sid \in ScheduleIds :
          /\ schedules[sid].exists /\ schedules'[sid].exists
          /\ schedules[sid].status = "disabled"
          => schedules'[sid].status \in {"disabled", "active"}]_vars

\* C23 as stated: in every reachable state the status of every schedule
\* is one of active, paused, disabled.
C23_StatusInEnum ==
    \A sid \in ScheduleIds :
        schedules[sid].exists => schedules[sid].status \in {"active", "paused", "disabled"}

-----------------------------------------------------------------------------
(* C24: the tokens of a firing and the notification *)

\* The token tok, issued for action, was handed to the mail server in a
\* notification of its schedule
HandedOver(tok) ==
    \E i \in 1..Len(outbox) :
        /\ outbox[i].schedule_id = tokens[tok].schedule_id
        /\ \/ outbox[i].generate_token = tok /\ tokens[tok].action = "generate"
           \/ outbox[i].skip_token = tok /\ tokens[tok].action = "skip"

\* C24 as stated: the tokens of a firing are one generate token and one skip
\* token, distinct from each other and from the tokens of every other
\* firing, bound to the schedule and the user of the firing, and every
\* token in the store was handed to a notification attempt.
C24_TokensHandedToNotifier ==
    /\ \A i, j \in 1..Len(outbox) :
          /\ outbox[i].generate_token # outbox[j].skip_token
          /\ i # j => outbox[i].generate_token # outbox[j].generate_token
          /\ i # j => outbox[i].skip_token # outbox[j].skip_token
    /\ \A tok \in DOMAIN tokens :
          /\ tokens[tok].user_id = schedules[tokens[tok].schedule_id].user_id
          /\ HandedOver(tok)

-----------------------------------------------------------------------------
(* C25: the notification that was not delivered *)

\* C25: last_email_sent is written only by a run whose notification was
\* delivered, with the clock reading of that run; after a notification that
\* was not delivered last_email_sent is as it was, and a later run that
\* finds the schedule active, not skipped and still inside the firing
\* window (up to the trigger of Wednesday 13:00) hands the notification to
\* the mail server again.
C25_FailedDeliveryRetried ==
    /\ \A sid \in ScheduleIds :
          schedules[sid].last_email_sent # NoTime =>
              \E i \in 1..Len(outbox) :
                  /\ outbox[i].schedule_id = sid /\ outbox[i].success
                  /\ outbox[i].at = schedules[sid].last_email_sent
    /\ \A i \in 1..Len(outbox), p \in Passes :
          /\ ~outbox[i].success
          /\ Settled(p, outbox[i].schedule_id)
          /\ outbox[i].at < pass[p].at /\ pass[p].at <= At(2, 13, 0, 0)
          => Notified(outbox[i].schedule_id, pass[p].at)

\* The notification of 12:55:00 was not delivered; the run of 13:00:00
\* loaded the row without last_email_sent, notified again, was delivered
\* and wrote its clock reading
C25_Witness ==
    /\ Len(outbox) = 2
    /\ outbox[1].at = At(2, 12, 55, 0) /\ ~outbox[1].success
    /\ outbox[2].at = At(2, 13, 0, 0) /\ outbox[2].success
    /\ schedules[1].last_email_sent = At(2, 13, 0, 0)
    /\ \E p \in Passes : pass[p].at = At(2, 13, 0, 0) /\ pass[p].rows[1].last_email_sent = NoTime

-----------------------------------------------------------------------------
(* C26: the schedule that raises *)

\* The run p loaded the active schedule sid with a lab_time that raises
Failing(p, sid) ==
    /\ pass[p].at # NoTime
    /\ sid \in ActiveIds(pass[p].rows)
    /\ ~ValidLabTime(pass[p].rows[sid].lab_time)

\* C26: a run of the scan in which the processing of one active schedule
\* raises (a lab_time that cannot be parsed) still evaluates every other
\* active schedule: one that is due (inside the window of the Wednesday
\* 13:00 trigger, not notified before, not skipped) is notified by the run,
\* whether it comes before or after the failing one, and nothing is issued
\* or sent for the failing one.
C26_FailureDoesNotAbortPass ==
    \A p \in Passes, bad, sid \in ScheduleIds :
        /\ Failing(p, bad)
        /\ Settled(p, sid) /\ ValidLabTime(pass[p].rows[sid].lab_time)
        /\ At(2, 12, 55, 0) <= pass[p].at /\ pass[p].at <= At(2, 13, 0, 0)
        => /\ Notified(sid, pass[p].at)
           /\ ~Notified(bad, pass[p].at)
           /\ \A tok \in DOMAIN tokens : tokens[tok].schedule_id # bad

\* Schedule 1, first in the loop, has a lab_time that raises; the run of
\* 12:55:00 has returned and has notified schedule 2
C26_Witness ==
    /\ Len(outbox) = 1 /\ outbox[1].schedule_id = 2 /\ outbox[1].at = At(2, 12, 55, 0)
    /\ \E p \in Passes :
          /\ Failing(p, 1) /\ Settled(p, 2)
          /\ pass[p].at = At(2, 12, 55, 0)

-----------------------------------------------------------------------------
(* C27: the schedule or the module that is gone *)

\* C27: a generate request whose token is in the store and has not expired
\* and whose schedule is gone, or is there without its module, is answered
\* with an error page, and so is a skip request whose schedule is gone;
\* neither changes a field of a schedule or appends a history row.
C27_MissingScheduleAborts ==
    [][/\ \A r \in Requests :
             /\ reqs[r].pc = "validated"
             /\ \/ ~schedules[reqs[r].schedule_id].exists
                \/ ~schedules[reqs[r].schedule_id].has_module
             /\ GenLoad(r)
             => /\ reqs'[r].pc = "done"
                /\ reqs'[r].answer \in {"not_found", "error"}
                /\ schedules' = schedules /\ history' = history
       /\ \A r \in Requests, tok \in DOMAIN tokens :
             /\ now <= tokens[tok].expires_at
             /\ ~schedules[tokens[tok].schedule_id].exists
             /\ SkipRequest(r, tok)
             => /\ reqs'[r].answer = "not_found"
                /\ schedules' = schedules /\ history' = history]_vars

\* Both tokens of the firing of 12:55:00 were presented after the schedule
\* was deleted, one to each endpoint: both requests were answered "not
\* found", the deleted row is as it was and the history is empty
C27_Witness ==
    /\ ~schedules[1].exists /\ history = <<>>
    /\ schedules[1] = [OneSchedule[1] EXCEPT !.exists = FALSE,
                                             !.last_email_sent = schedules[1].last_email_sent]
    /\ \E r1, r2 \in Requests :
          /\ reqs[r1].pc = "done" /\ reqs[r1].endpoint = "generate"
          /\ reqs[r1].presented /\ reqs[r1].answer = "not_found"
          /\ reqs[r2].pc = "done" /\ reqs[r2].endpoint = "skip"
          /\ reqs[r2].presented /\ reqs[r2].answer = "not_found"

-----------------------------------------------------------------------------
(* C28: the history *)

\* The generate requests answered with the success page
Succeeded == {r \in Requests : reqs[r].pc = "done" /\ reqs[r].answer = "success"}

\* No generate request is between its commit and its answer
NoneInFlight == \A r \in Requests : reqs[r].pc \in {"new", "done"}

\* C28 as stated: the history is append-only, and once every request has
\* been answered the number of its rows is the number of generate requests
\* answered with the success page: a request answered with an error page
\* has appended none.
C28_HistoryCountsSuccesses ==
    /\ [](NoneInFlight => Len(history) = Cardinality(Succeeded))
    /\ [][/\ Len(history') >= Len(history)
          /\ SubSeq(history', 1, Len(history)) = history]_vars

-----------------------------------------------------------------------------
(* C29: the week after a skip *)

\* A run that has returned, during which the clock stood still, for a
\* schedule that was active, with no cool-down pending and without the date
\* of the run on its skip list
DueButFor(p, sid) ==
    /\ pass[p].pc = "idle" /\ pass[p].until # NoTime
    /\ pass[p].until = pass[p].at
    /\ sid \in ActiveIds(pass[p].rows)
    /\ \/ pass[p].rows[sid].last_email_sent = NoTime
       \/ pass[p].at - pass[p].rows[sid].last_email_sent >= 3600
    /\ ~SkippedToday(p, sid)

\* C29: a date on the skip list suppresses the runs of that date only: a run
\* inside the firing window on another date (12:55:00 of either Wednesday,
\* for the 13:00 trigger) notifies the schedule whatever other dates are on
\* its skip list, so the week after a skip fires.
C29_SkipDateThatDayOnly ==
    \A p \in Passes, sid \in ScheduleIds :
        /\ DueButFor(p, sid)
        /\ pass[p].at \in {At(2, 12, 55, 0), At(9, 12, 55, 0)}
        => Notified(sid, pass[p].at)

\* The first Wednesday was skipped; the run of 12:55:00 of the Wednesday
\* after loaded the row with that date on its skip list and notified
C29_Witness ==
    /\ schedules[1].skip_dates = <<IsoDate(At(2, 12, 55, 0))>>
    /\ Notified(1, At(9, 12, 55, 0))
    /\ \E p \in Passes :
          /\ DueButFor(p, 1) /\ pass[p].at = At(9, 12, 55, 0)
          /\ pass[p].rows[1].skip_dates = <<IsoDate(At(2, 12, 55, 0))>>

-----------------------------------------------------------------------------
(* C30: the lab instant *)

\* The instants at lab_time sharp, seconds zero, on the weekday of the call,
\* later than its clock reading and at most 7 days later
NextLabs ==
    {t \in {At(d, LabHour(calc.lab_time), LabMinute(calc.lab_time), 0) :
                d \in DayOf(calc.at)..(DayOf(calc.at) + 7)} :
        /\ Weekday(t) = calc.day_of_week
        /\ t > calc.at /\ t <= calc.at + 7 * 86400}

\* C30: for every clock reading, weekday 0..6 and well-formed lab_time there
\* is exactly one instant that is strictly later than the clock reading, at
\* most 7 days later, on the weekday of the schedule and at lab_time with
\* seconds zero, and the function returns that instant minus the lead time.
C30_LabInstantWithinAWeek ==
    calc.returned /\ ~calc.result.err =>
        /\ Cardinality(NextLabs) = 1
        /\ \A lab \in NextLabs :
              calc.result.t = lab - calc.generate_before_minutes * 60

\* Wednesday 00:00 lab, lead 25 hours, called on Tuesday 23:59:59: the lab
\* instant is one second later and the function returns Monday 23:00:00
C30_Witness ==
    /\ calc.returned /\ ~calc.result.err
    /\ calc.day_of_week = 2 /\ calc.generate_before_minutes = 1500
    /\ calc.at = At(1, 23, 59, 59)
    /\ NextLabs = {At(2, 0, 0, 0)}
    /\ calc.result.t = At(0, 23, 0, 0)

-----------------------------------------------------------------------------
(* C31: the cool-down test *)

\* The run p loaded schedule sid, active and not skipped today, at a clock
\* reading inside the firing window of the trigger of its Wednesday 14:00 lab
LoadedDue(p, sid) ==
    /\ sid \in ActiveIds(pass[p].rows)
    /\ ~SkippedToday(p, sid)
    /\ \A delta \in {At(2, 14, 0, 0) - pass[p].rows[sid].generate_before_minutes * 60
                          - pass[p].at} :
          0 <= delta /\ delta <= 300

\* C31: a run of the scan that finds a schedule due (active, inside the
\* firing window, not skipped today) leaves it out exactly when its
\* last_email_sent is set and less than 3600 seconds before the clock
\* reading of the run; with last_email_sent null, or 3600 seconds or more
\* before, the run hands the notification to the mail server.
C31_CoolDownExactlyOneHour ==
    [][\A p \in Passes, okSet \in SUBSET ScheduleIds :
          /\ pass[p].pc = "running" /\ pass[p].at = now
          /\ ScanFinish(p, okSet)
          => \A sid \in ScheduleIds :
                 LoadedDue(p, sid) =>
                     ((\E i \in (Len(outbox) + 1)..Len(outbox') :
                           outbox'[i].schedule_id = sid)
                      <=> ~(/\ pass[p].rows[sid].last_email_sent # NoTime
                            /\ pass[p].at - pass[p].rows[sid].last_email_sent < 3600))]_vars

\* Delivered at 12:55:00 for the 13:00 trigger; the lead time set to 0; the
\* run of 13:55:00, in the window of the 14:00 trigger, loaded the row with
\* last_email_sent exactly 3600 seconds back and notified
C31_Witness ==
    /\ Len(outbox) = 2
    /\ outbox[1].at = At(2, 12, 55, 0) /\ outbox[1].success
    /\ outbox[2].at = At(2, 13, 55, 0)
    /\ \E p \in Passes :
          /\ pass[p].pc = "idle" /\ pass[p].at = At(2, 13, 55, 0)
          /\ pass[p].rows[1].generate_before_minutes = 0
          /\ pass[p].rows[1].last_email_sent = At(2, 12, 55, 0)

-----------------------------------------------------------------------------
(* C32: a lead time of more than a week *)

-----------------------------------------------------------------------------
(* C33: the token that is not in the store *)

\* C33: a generate or skip request that presents a token that is not in
\* the store is answered "Invalid or expired link" and leaves the token
\* store, every schedule and the history as they were.
C33_AbsentTokenChangesNothing ==
    [][\A r \in Requests, tok \in (1..MaxTokens) \ DOMAIN tokens :
          GenValidate(r, tok, TRUE) \/ SkipRequest(r, tok) =>
              /\ reqs'[r].pc = "done" /\ reqs'[r].answer = "invalid"
              /\ tokens' = tokens
              /\ schedules' = schedules
              /\ history' = history]_vars

\* With the pair of the firing of 12:55:00 in the store, each endpoint was
\* asked with a token that is not there and answered "invalid"; the pair is
\* still in the store, nothing was generated or skipped
C33_Witness ==
    /\ DOMAIN tokens = {1, 2} /\ nextTok = 3
    /\ history = <<>> /\ schedules[1].skip_dates = <<>>
    /\ schedules[1].current_practical_number = 1
    /\ \E r1, r2 \in Requests :
          /\ reqs[r1].pc = "done" /\ reqs[r1].endpoint = "generate"
          /\ reqs[r1].tok \notin DOMAIN tokens /\ reqs[r1].answer = "invalid"
          /\ reqs[r2].pc = "done" /\ reqs[r2].endpoint = "skip"
          /\ reqs[r2].tok \notin DOMAIN tokens /\ reqs[r2].answer = "invalid"

-----------------------------------------------------------------------------
(* C34: what a scan writes *)

\* C34: a pass of the scan keeps every token that was in the store, appends
\* no history row, and leaves every field of every schedule as it was but
\* last_email_sent, which it sets, to its clock reading, only for a
\* schedule whose notification it delivered: the counter, the skip dates,
\* the status and last_generated_at never change in a scan.
C34_ScanWritesOnlyLastEmailSent ==
    [][\A okSet \in SUBSET ScheduleIds :
          check_and_send_emails(okSet) =>
              /\ history' = history
              /\ \A tok \in DOMAIN tokens :
                    tok \in DOMAIN tokens' /\ tokens'[tok] = tokens[tok]
              /\ \A sid \in ScheduleIds :
                    /\ schedules'[sid] =
                          [schedules[sid] EXCEPT !.last_email_sent = schedules'[sid].last_email_sent]
                    /\ schedules'[sid].last_email_sent # schedules[sid].last_email_sent =>
                          /\ schedules'[sid].last_email_sent = now
                          /\ \E i \in (Len(outbox) + 1)..Len(outbox') :
                                outbox'[i].schedule_id = sid /\ outbox'[i].success]_vars

\* Schedule 1 was notified at 12:55:00 and schedule 2 at 13:55:00, both
\* delivered: four tokens in the store, the rows otherwise as created
C34_Witness ==
    /\ nextTok = 5 /\ DOMAIN tokens = {1, 2, 3, 4}
    /\ Len(outbox) = 2 /\ history = <<>>
    /\ schedules[1] = [TwoSchedules[1] EXCEPT !.last_email_sent = At(2, 12, 55, 0)]
    /\ schedules[2] = [TwoSchedules[2] EXCEPT !.last_email_sent = At(2, 13, 55, 0)]

-----------------------------------------------------------------------------
(* C35: what the email-button requests leave alone *)

\* Every schedule but sid and every token but tok are as they were
OthersUntouched(tok, sid) ==
    /\ \A other \in ScheduleIds \ {sid} : schedules'[other] = schedules[other]
    /\ \A t \in DOMAIN tokens \ {tok} : t \in DOMAIN tokens' /\ tokens'[t] = tokens[t]

\* C35: a generate request leaves skip_dates, status and last_email_sent
\* of the schedule of its token as they were; a skip request leaves the
\* counter, last_generated_at, last_email_sent, the status and the history
\* as they were; neither changes another schedule or removes a token other
\* than the one presented.
C35_ConsumptionFrame ==
    [][\A tok \in DOMAIN tokens :
          \A sid \in {tokens[tok].schedule_id} :
              /\ \A generated, uploaded, mailed \in BOOLEAN :
                    generate_from_email(tok, generated, uploaded, mailed) =>
                        /\ schedules'[sid].skip_dates = schedules[sid].skip_dates
                        /\ schedules'[sid].status = schedules[sid].status
                        /\ schedules'[sid].last_email_sent = schedules[sid].last_email_sent
                        /\ OthersUntouched(tok, sid)
              /\ skip_from_email(tok) =>
                    /\ schedules'[sid].current_practical_number
                          = schedules[sid].current_practical_number
                    /\ schedules'[sid].last_generated_at = schedules[sid].last_generated_at
                    /\ schedules'[sid].last_email_sent = schedules[sid].last_email_sent
                    /\ schedules'[sid].status = schedules[sid].status
                    /\ history' = history
                    /\ OthersUntouched(tok, sid)]_vars

\* Of the four tokens of the two firings, the generate token of schedule 1
\* and the skip token of schedule 2 were used: schedule 1 has generated and
\* has no skip date, schedule 2 has a skip date and has not generated, both
\* keep their last_email_sent, the other two tokens are in the store
C35_Witness ==
    /\ nextTok = 5 /\ DOMAIN tokens = {2, 3}
    /\ Len(history) = 1 /\ history[1].module_code = 1
    /\ schedules[1].current_practical_number = 2 /\ schedules[1].skip_dates = <<>>
    /\ schedules[1].last_email_sent = At(2, 12, 55, 0)
    /\ schedules[2].current_practical_number = 1
    /\ schedules[2].last_generated_at = NoTime
    /\ Len(schedules[2].skip_dates) = 1
    /\ schedules[2].last_email_sent = At(2, 13, 55, 0)

-----------------------------------------------------------------------------
(* C36: what the PUT request leaves alone *)

\* C36: a PUT request on a schedule, whatever key it carries (day, time,
\* lead, counter, auto_increment, status), leaves skip_dates,
\* last_email_sent and last_generated_at of the schedule as they were.
C36_UpdateKeepsStamps ==
    [][\A sid \in ScheduleIds, key \in UpdateKeys :
          \A value \in UpdateValues(key) :
              update_schedule(sid, key, value) =>
                  /\ schedules'[sid].skip_dates = schedules[sid].skip_dates
                  /\ schedules'[sid].last_email_sent = schedules[sid].last_email_sent
                  /\ schedules'[sid].last_generated_at = schedules[sid].last_generated_at]_vars

\* The schedule was notified, generated for and skipped at 12:55:00 and
\* then paused by a PUT request: the three fields are as the scan and the
\* two requests left them
C36_Witness ==
    /\ upd = 1 /\ schedules[1].status = "paused"
    /\ schedules[1].last_email_sent = At(2, 12, 55, 0)
    /\ schedules[1].last_generated_at = At(2, 12, 55, 0)
    /\ schedules[1].skip_dates = <<IsoDate(At(2, 12, 55, 0))>>

-----------------------------------------------------------------------------
(* C37: the email-button requests and the status *)

\* The schedule of request r is there, with its module, and is not active
NotActive(sid) ==
    /\ schedules[sid].exists /\ schedules[sid].has_module
    /\ schedules[sid].status # "active"

\* C37: the status of the schedule plays no part in the email-button
\* requests: for a schedule that is paused or disabled (or has any status
\* but active) a generate request with a valid token loads the row, appends
\* its history row and advances the counter it loaded, and a skip request
\* with a valid token is answered with the skip page and puts today on the
\* skip list.
C37_ConsumptionIgnoresStatus ==
    [][/\ \A r \in Requests :
             \A sid \in {reqs[r].schedule_id} :
                 /\ reqs[r].pc = "validated" /\ NotActive(sid) /\ GenLoad(r)
                    => reqs'[r].pc = "loaded" /\ reqs'[r].status = schedules[sid].status
                 /\ reqs[r].pc = "loaded" /\ NotActive(sid) /\ GenCommit(r, FALSE)
                    => /\ Len(history') = Len(history) + 1
                       /\ schedules'[sid].current_practical_number =
                             reqs[r].counter + (IF reqs[r].auto_increment THEN 1 ELSE 0)
       /\ \A r \in Requests, tok \in DOMAIN tokens :
             \A sid \in {tokens[tok].schedule_id} :
                 /\ now <= tokens[tok].expires_at /\ NotActive(sid)
                 /\ SkipRequest(r, tok)
                 => /\ reqs'[r].answer = "skipped"
                    /\ Contains(schedules'[sid].skip_dates, IsoDate(now))]_vars

\* The schedule was notified and then disabled; after that one request
\* generated (counter 2, one history row) and one skipped
C37_Witness ==
    /\ schedules[1].status = "disabled"
    /\ Len(history) = 1 /\ schedules[1].current_practical_number = 2
    /\ schedules[1].skip_dates = <<IsoDate(At(2, 12, 55, 0))>>
    /\ \E r1, r2 \in Requests :
          /\ reqs[r1].endpoint = "generate" /\ reqs[r1].status = "disabled"
          /\ reqs[r1].answer = "success"
          /\ reqs[r2].endpoint = "skip" /\ reqs[r2].status = "disabled"
          /\ reqs[r2].answer = "skipped"

-----------------------------------------------------------------------------
(* C38: the counter and the history of schedule 1, whose auto_increment is
   on and whose counter no request edits *)

\* The history rows written for schedule sid
HistoryOf(sid) ==
    {i \in 1..Len(history) : history[i].module_code = schedules[sid].module_id}

\* C38: the counter of schedule 1 is its first value, 1, plus the number of
\* history rows written for it, and the i-th row records practical number i,
\* the value of the counter just before that generation advanced it.
C38_CounterIsInitialPlusHistory ==
    /\ schedules[1].current_practical_number = 1 + Cardinality(HistoryOf(1))
    /\ \A i \in 1..Len(history) : history[i].practical_number = i

-----------------------------------------------------------------------------
(* C39: what takes a token out of the store *)

\* A request presents token tok in this step
Presents(tok) ==
    \/ \E generated, uploaded, mailed \in BOOLEAN :
          generate_from_email(tok, generated, uploaded, mailed)
    \/ skip_from_email(tok)

\* C39: a token leaves the store only in a step of a request that presents
\* it, which either finds it expired or consumes it (the generation or the
\* skip date is committed in that step); every other step (a scan, a clock
\* tick, a request for another token, a delete or sync request) leaves each
\* token in the store as it was.
C39_TokensLeaveOnlyWhenPresented ==
    [][\A tok \in DOMAIN tokens :
          \A sid \in {tokens[tok].schedule_id} :
              \/ tok \in DOMAIN tokens' /\ tokens'[tok] = tokens[tok]
              \/ /\ tok \notin DOMAIN tokens'
                 /\ Presents(tok)
                 /\ \/ now > tokens[tok].expires_at
                    \/ Len(history') = Len(history) + 1
                    \/ Contains(schedules'[sid].skip_dates, IsoDate(now))]_vars

\* The firing of 12:55:00 was not delivered and was retried at 13:00:00; the
\* schedule was then deleted, no link was ever followed, and a second after
\* the first pair expired both pairs are still in the store
C39_Witness ==
    /\ now = At(3, 12, 55, 1)
    /\ DOMAIN tokens = 1..4
    /\ \A tok \in 1..4 : tokens[tok].schedule_id = 1
    /\ tokens[1].created_at = At(2, 12, 55, 0) /\ tokens[1].action = "generate"
    /\ tokens[2].created_at = At(2, 12, 55, 0) /\ tokens[2].action = "skip"
    /\ tokens[3].created_at = At(2, 13, 0, 0) /\ tokens[3].action = "generate"
    /\ tokens[4].created_at = At(2, 13, 0, 0) /\ tokens[4].action = "skip"
    /\ now > tokens[1].expires_at
    /\ ~schedules[1].exists
    /\ history = <<>> /\ schedules[1].skip_dates = <<>>

-----------------------------------------------------------------------------
(* C40: the practical number on the success page *)

\* practical=schedule.current_practical_number - 1, read from the row after
\* db.commit()
SuccessPagePractical(sch) == sch.current_practical_number - 1

\* C40: a generate request answered with the success page shows on it the
\* practical number of the sheet it generated, which is the number in the
\* history row it wrote, whether auto_increment is on or off.
C40_SuccessPageShowsGenerated ==
    [][\A tok \in DOMAIN tokens :
          \A generated, uploaded, mailed \in BOOLEAN :
              \A sid \in {tokens[tok].schedule_id} :
                  /\ GenerateAnswer(tok, generated, uploaded, mailed) = "success"
                  /\ generate_from_email(tok, generated, uploaded, mailed)
                  => SuccessPagePractical(schedules'[sid]) =
                        history'[Len(history')].practical_number]_vars

=============================================================================
